---------------------------- MODULE Spec2Model ----------------------------
(***************************************************************************)
(* Model of app/ai/emotion_detector.py: the lazily loaded model/cascade    *)
(* bundle, the two module locks, and analyze_frame called from several     *)
(* worker threads of the threaded Flask server (run.py).                   *)
(*                                                                         *)
(* Python's None is the record None; every value that may be None is a    *)
(* record.  A dimension that is None in a Keras input_shape is written 0.  *)
(* Floating point values are fixed point integers in units of 1/SCALE.     *)
(* The wall clock (inferenceMs) is not modelled: a result record holds     *)
(* emotion, probs and bbox.                                                *)
(***************************************************************************)
EXTENDS Integers, Sequences, FiniteSets, TLC

None == [py |-> "None"]

(* ------------------------------ bounds -------------------------------- *)

\* number of worker threads that call analyze_frame
NumThreads == 2
\* calls of analyze_frame the server handles in all
MaxCalls == 2

Threads == 1..NumThreads

(* ---------------------------- module data ----------------------------- *)

EMOTION_LABELS ==
    << "Rabbia", "Disgusto", "Paura", "Felicita'",
       "Neutralita'", "Tristezza", "Sorpresa" >>

NumLabels == Len(EMOTION_LABELS)

\* fixed point: 1.0 is SCALE
SCALE == 1000 * 1000

Max2(a, b) == IF a >= b THEN a ELSE b
Min2(a, b) == IF a <= b THEN a ELSE b
Abs(a) == IF a < 0 THEN -a ELSE a

\* floor of n/d for d > 0 (TLA+ \div already floors)
FloorDiv(n, d) == n \div d

\* Python 3 round() of the rational n/d, d > 0: to nearest, ties to even
PyRound(n, d) ==
    LET q == FloorDiv(n, d)
        r == n - q * d
    IN  IF 2 * r < d THEN q
        ELSE IF 2 * r > d THEN q + 1
        ELSE IF q % 2 = 0 THEN q ELSE q + 1

(* ----------------------- inputs of analyze_frame ---------------------- *)

\* Decoded frames: width, height, what the Haar cascade finds in them (in the
\* order detectMultiScale yields it) and whether the detector raises on them.
\* expr is the emotion (index in EMOTION_LABELS) a face shows.
ImgNoFace == [id |-> "noface", w |-> 16, h |-> 12, derr |-> FALSE, faces |-> << >>]
ImgOne ==
    [id |-> "one", w |-> 16, h |-> 12, derr |-> FALSE,
     faces |-> << [x |-> 5, y |-> 3, w |-> 6, h |-> 6, expr |-> 1] >>]
ImgTwo ==
    [id |-> "two", w |-> 16, h |-> 12, derr |-> FALSE,
     faces |-> << [x |-> 0, y |-> 0, w |-> 4, h |-> 4, expr |-> 6],
                  [x |-> 8, y |-> 2, w |-> 8, h |-> 8, expr |-> 4] >>]
ImgErr == [id |-> "err", w |-> 16, h |-> 12, derr |-> TRUE, faces |-> << >>]

\* base64.b64decode of a payload: the bytes, or "error" (binascii.Error)
B64Decode(payload) == IF payload = "!!" THEN "error" ELSE payload

\* cv2.imdecode of bytes: the frame, or None when the bytes are no image
ImDecode(bytes) ==
    CASE bytes = "noface" -> ImgNoFace
      [] bytes = "one" -> ImgOne
      [] bytes = "two" -> ImgTwo
      [] bytes = "err" -> ImgErr
      [] OTHER -> None

\* The strings passed as image_data_url: head is what precedes the payload.
DataUrls ==
    { [head |-> "data:image/jpeg;base64,", payload |-> "noface"],
      [head |-> "data:image/jpeg;base64,", payload |-> "one"],
      [head |-> "", payload |-> "two"],
      [head |-> "data:image/jpeg;base64,", payload |-> "err"],
      [head |-> "", payload |-> "!!"],
      [head |-> "data:image/jpeg;base64,", payload |-> "text"],
      [head |-> "data:image", payload |-> "one"] }

StartsWithDataImage(head) == head \in {"data:image/jpeg;base64,", "data:image"}
HasComma(head) == head = "data:image/jpeg;base64,"

\* _decode_base64_image: any exception inside is caught and gives None
_decode_base64_image(image_data_url) ==
    IF StartsWithDataImage(image_data_url.head) /\ ~HasComma(image_data_url.head)
    THEN None   \* split(',', 1) yields one part: ValueError, caught
    ELSE LET image_bytes == B64Decode(image_data_url.payload)
         IN  IF image_bytes = "error" THEN None ELSE ImDecode(image_bytes)

(* ---------------------------- face detection ------------------------- *)

Area(face) == face.w * face.h

\* cascade.detectMultiScale(gray, ...): the rectangles (x, y, w, h) found
DetectMultiScale(image) ==
    [i \in 1..Len(image.faces) |->
        [x |-> image.faces[i].x, y |-> image.faces[i].y,
         w |-> image.faces[i].w, h |-> image.faces[i].h]]

\* max(faces, key=lambda face: face[2] * face[3]): the first face of maximal area
LargestFace(faces) ==
    LET best == CHOOSE i \in 1..Len(faces) :
                    /\ \A j \in 1..Len(faces) : Area(faces[j]) <= Area(faces[i])
                    /\ \A j \in 1..(i - 1) : Area(faces[j]) < Area(faces[i])
    IN  faces[best]

\* the body of _detect_largest_face on the frame the detector works on:
\* an exception of cvtColor/detectMultiScale is caught and gives None
DetectOn(image) ==
    IF image = None \/ image.derr THEN None
    ELSE LET faces == DetectMultiScale(image)
         IN  IF Len(faces) = 0 THEN None ELSE LargestFace(faces)

_detect_largest_face(image_bgr, cascade) == DetectOn(image_bgr)

(* --------------------------- region expansion ------------------------- *)

\* the margin 0.25 analyze_frame passes, as the rational 1/4
MarginNum == 1
MarginDen == 4

\* lines 176-189: the grown (and squared) region recomputed from the center,
\* rounded, before it is clamped
GrownBox(bbox, mnum, mden, make_square) ==
    LET D == 2 * mden
        cxN == (2 * bbox.x + bbox.w) * mden
        cyN == (2 * bbox.y + bbox.h) * mden
        wN == 2 * bbox.w * (mden + mnum)
        hN == 2 * bbox.h * (mden + mnum)
        w2N == IF make_square THEN Max2(wN, hN) ELSE wN
        h2N == IF make_square THEN Max2(wN, hN) ELSE hN
    IN  [x |-> PyRound(2 * cxN - w2N, 2 * D),
         y |-> PyRound(2 * cyN - h2N, 2 * D),
         w |-> PyRound(w2N, D),
         h |-> PyRound(h2N, D)]

\* fault variant: a negative left/top edge is cut off, the width/height is
\* reduced by the part cut
ExpandBboxCutsNegativePart(image_shape, bbox, mnum, mden, make_square) ==
    LET h_img == image_shape[1]
        w_img == image_shape[2]
        g == GrownBox(bbox, mnum, mden, make_square)
        x2 == Max2(0, g.x)
        y2 == Max2(0, g.y)
        w2c == IF g.x < 0 THEN g.w + g.x ELSE g.w
        h2c == IF g.y < 0 THEN g.h + g.y ELSE g.h
        w2 == IF x2 + w2c > w_img THEN w_img - x2 ELSE w2c
        h2 == IF y2 + h2c > h_img THEN h_img - y2 ELSE h2c
    IN  [x |-> x2, y |-> y2, w |-> w2, h |-> h2]

\* fault variant: the box is not cut at the right and bottom image edges
ExpandBboxNoClamp(image_shape, bbox, mnum, mden, make_square) ==
    LET D == 2 * mden
        cxN == (2 * bbox.x + bbox.w) * mden          \* cx * D
        cyN == (2 * bbox.y + bbox.h) * mden          \* cy * D
        wN == 2 * bbox.w * (mden + mnum)             \* w2 * D
        hN == 2 * bbox.h * (mden + mnum)             \* h2 * D
        w2N == IF make_square THEN Max2(wN, hN) ELSE wN
        h2N == IF make_square THEN Max2(wN, hN) ELSE hN
        x2r == PyRound(2 * cxN - w2N, 2 * D)         \* round(cx - w2 / 2.0)
        y2r == PyRound(2 * cyN - h2N, 2 * D)
        w2r == PyRound(w2N, D)
        h2r == PyRound(h2N, D)
        x2 == Max2(0, x2r)
        y2 == Max2(0, y2r)
        w2 == w2r
        h2 == h2r
    IN  [x |-> x2, y |-> y2, w |-> w2, h |-> h2]

\* fault variant: the box is made square whatever make_square says
ExpandBboxAlwaysSquare(image_shape, bbox, mnum, mden, make_square) ==
    LET h_img == image_shape[1]
        w_img == image_shape[2]
        D == 2 * mden
        cxN == (2 * bbox.x + bbox.w) * mden          \* cx * D
        cyN == (2 * bbox.y + bbox.h) * mden          \* cy * D
        wN == 2 * bbox.w * (mden + mnum)             \* w2 * D
        hN == 2 * bbox.h * (mden + mnum)             \* h2 * D
        w2N == Max2(wN, hN)
        h2N == Max2(wN, hN)
        x2r == PyRound(2 * cxN - w2N, 2 * D)         \* round(cx - w2 / 2.0)
        y2r == PyRound(2 * cyN - h2N, 2 * D)
        w2r == PyRound(w2N, D)
        h2r == PyRound(h2N, D)
        x2 == Max2(0, x2r)
        y2 == Max2(0, y2r)
        w2 == IF x2 + w2r > w_img THEN w_img - x2 ELSE w2r
        h2 == IF y2 + h2r > h_img THEN h_img - y2 ELSE h2r
    IN  [x |-> x2, y |-> y2, w |-> w2, h |-> h2]

\* _expand_bbox(image_shape, bbox, margin = mnum/mden, make_square), exact
\* rational arithmetic over the common denominator 2 * mden
_expand_bbox(image_shape, bbox, mnum, mden, make_square) ==
    LET h_img == image_shape[1]
        w_img == image_shape[2]
        D == 2 * mden
        cxN == (2 * bbox.x + bbox.w) * mden          \* cx * D
        cyN == (2 * bbox.y + bbox.h) * mden          \* cy * D
        wN == 2 * bbox.w * (mden + mnum)             \* w2 * D
        hN == 2 * bbox.h * (mden + mnum)             \* h2 * D
        w2N == IF make_square THEN Max2(wN, hN) ELSE wN
        h2N == IF make_square THEN Max2(wN, hN) ELSE hN
        x2r == PyRound(2 * cxN - w2N, 2 * D)         \* round(cx - w2 / 2.0)
        y2r == PyRound(2 * cyN - h2N, 2 * D)
        w2r == PyRound(w2N, D)
        h2r == PyRound(h2N, D)
        x2 == Max2(0, x2r)
        y2 == Max2(0, y2r)
        w2 == IF x2 + w2r > w_img THEN w_img - x2 ELSE w2r
        h2 == IF y2 + h2r > h_img THEN h_img - y2 ELSE h2r
    IN  [x |-> x2, y |-> y2, w |-> w2, h |-> h2]

ImageShape(image) == << image.h, image.w, 3 >>

(* ----------------------------- preprocessing -------------------------- *)

\* length of the numpy slice [start:stop] of an axis of n elements
SliceLen(start, stop, n) ==
    LET norm(i) == IF i < 0 THEN Max2(i + n, 0) ELSE Min2(i, n)
    IN  Max2(norm(stop) - norm(start), 0)

\* the emotion shown inside a crop of the frame: that of the first face whose
\* centre lies in the crop, Neutralita' (5) when there is none
ExprAt(image, bbox) ==
    LET inside(f) == /\ 2 * bbox.x <= 2 * f.x + f.w
                     /\ 2 * f.x + f.w <= 2 * (bbox.x + bbox.w)
                     /\ 2 * bbox.y <= 2 * f.y + f.h
                     /\ 2 * f.y + f.h <= 2 * (bbox.y + bbox.h)
        hits == { i \in 1..Len(image.faces) : inside(image.faces[i]) }
    IN  IF hits = {} THEN 5
        ELSE image.faces[CHOOSE i \in hits : \A j \in hits : i <= j].expr

\* H, W, C of an input_shape: (None, H, W, C), (H, W, C), else 224, 224, 3
ShapeHWC(input_shape) ==
    IF Len(input_shape) = 4
    THEN << input_shape[2], input_shape[3], input_shape[4] >>
    ELSE IF Len(input_shape) = 3
    THEN << input_shape[1], input_shape[2], input_shape[3] >>
    ELSE << 224, 224, 3 >>

\* _preprocess_face_image: the batch tensor, or None when cvtColor/resize
\* raise (empty crop, a target size that is not a positive integer)
_preprocess_face_image(image_bgr, bbox, input_shape, mode) ==
    LET hwc == ShapeHWC(input_shape)
        H == hwc[1]
        W == hwc[2]
        C == hwc[3]
        rows == SliceLen(bbox.y, bbox.y + bbox.h, image_bgr.h)
        cols == SliceLen(bbox.x, bbox.x + bbox.w, image_bgr.w)
    IN  IF rows = 0 \/ cols = 0 \/ H <= 0 \/ W <= 0 THEN None
        ELSE [shape |-> << 1, H, W, IF C = 1 THEN 1 ELSE 3 >>,
              order |-> IF C = 1 THEN "gray"
                        ELSE IF mode = "raw_bgr" THEN "bgr" ELSE "rgb",
              dtype |-> IF mode = "raw_bgr" THEN "uint8" ELSE "float32",
              expr |-> ExprAt(image_bgr, bbox)]

(* ------------------------------ the model ---------------------------- *)

\* What may sit at EMOTION_MODEL_PATH when a load reads it: no file, a file
\* load_model raises on, or a Keras model of one of these kinds.
ModelFiles ==
    { "absent", "corrupt", "softmax7", "logits7", "wrongdim", "multi_input",
      "dynshape" }
\* What may sit at HAAR_CASCADE_PATH / in cv2.data.haarcascades: no file, a
\* file that loads to an empty CascadeClassifier, or a usable cascade.
CustomCascadeFiles == { "absent", "empty", "ok" }
BuiltinCascadeFiles == { "empty", "ok" }

\* getattr(model, 'input_shape', (None, 224, 224, 3))
InputShapeOf(model) ==
    CASE model.kind = "softmax7" -> << 0, 48, 48, 1 >>
      [] model.kind = "dynshape" -> << 0, 0, 0, 3 >>
      [] model.kind = "multi_input" -> << 0, 0 >>   \* a list of two shapes
      [] OTHER -> << 0, 224, 224, 3 >>

\* model.predict raises (a model that takes two inputs is given one)
PredictRaises(model, face_input) == model.kind = "multi_input"

OneHot(n, k, hi, lo) == [i \in 1..n |-> IF i = k THEN hi ELSE lo]

\* model.predict(face_input, verbose=0) on the tensor the model works on:
\* a batch of one row
PredictOn(model, face_input) ==
    LET shown == IF face_input = None THEN 5 ELSE face_input.expr
        row == CASE model.kind = "softmax7" ->
                        OneHot(NumLabels, shown, 940000, 10000)
                 [] model.kind = "wrongdim" ->
                        OneHot(5, 1, SCALE, 0)
                 [] OTHER ->
                        OneHot(NumLabels, shown, 3 * SCALE, -SCALE)
    IN  [ndim |-> 2, data |-> << row >>]

(* ----------------------- probability normalisation -------------------- *)

RECURSIVE SumSeq(_)
SumSeq(s) == IF Len(s) = 0 THEN 0 ELSE Head(s) + SumSeq(Tail(s))

RECURSIVE MaxSeq(_)
MaxSeq(s) == IF Len(s) = 1 THEN s[1] ELSE Max2(Head(s), MaxSeq(Tail(s)))

\* round(SCALE * exp(-k)) for k = 0, 1, 2, ...; 0 from k = 15 on
ExpTable ==
    << 1000000, 367879, 135335, 49787, 18316, 6738, 2479, 912, 335, 123,
       45, 17, 6, 2, 1 >>

\* floor(a * b / SCALE) for 0 <= a, b <= SCALE, within 32 bits
MulFix(a, b) == ((a \div 1000) * b + ((a % 1000) * b) \div 1000) \div 1000

\* np.exp(d) for d <= 0: the table at the whole part, interpolated linearly
\* to the next entry over the fractional part
ExpFix(d) ==
    LET k == (-d) \div SCALE
        f == (-d) % SCALE
        at(i) == IF i + 1 <= Len(ExpTable) THEN ExpTable[i + 1] ELSE 0
    IN  at(k) - MulFix(at(k) - at(k + 1), f)

\* floor(n * SCALE / d) for 0 <= n <= d, one decimal digit at a time to stay
\* in 32 bits; place is the weight of the next digit
RECURSIVE DivDigits(_, _, _)
DivDigits(n, d, place) ==
    IF place = 0 THEN 0
    ELSE ((n * 10) \div d) * place + DivDigits((n * 10) % d, d, place \div 10)

DivFix(n, d) == IF n = d THEN SCALE ELSE DivDigits(n, d, SCALE \div 10)

\* atol 1e-3 and numpy's default rtol 1e-5 of np.isclose(sum, 1.0, atol=1e-3)
IsCloseTol == 1010
\* the -1e-6 of np.all(arr >= -1e-6)
NegTol == 1

\* the element of a one-element set: { F(x) : x \in { e } } evaluates e once
Only(S) == CHOOSE r \in S : TRUE

\* lines 268-271: denom, the uniform fallback, exp / denom
SoftmaxOf(exp) ==
    Only({ IF denom <= 0
           THEN [data |-> [i \in 1..Len(exp) |-> SCALE \div Max2(1, Len(exp))]]
           ELSE [data |-> [i \in 1..Len(exp) |-> DivFix(exp[i], denom)]] :
           denom \in { SumSeq(exp) } })

\* lines 262-271 on the vector arr; every value of the model is finite, so
\* the np.isfinite tests of lines 262 and 269 hold
ProbabilitiesOf(arr) ==
    IF Len(arr) = 0 THEN None            \* np.max of an empty array raises
    ELSE IF /\ \A i \in 1..Len(arr) : arr[i] >= -NegTol
            /\ Abs(SumSeq(arr) - SCALE) <= IsCloseTol
    THEN [data |-> arr]
    ELSE Only({ SoftmaxOf([i \in 1..Len(arr) |-> ExpFix(arr[i] - mx)]) :
                mx \in { MaxSeq(arr) } })

\* _to_probabilities: [data |-> the probabilities], None on an exception
_to_probabilities(predictions) ==
    Only({ ProbabilitiesOf(arr) :
           arr \in { IF predictions.ndim = 2 THEN predictions.data[1]
                     ELSE predictions.data } })

(* ------------------------------ results ------------------------------- *)

LabelSet(n) == { EMOTION_LABELS[i] : i \in 1..n }
LabelIndex(label) == CHOOSE i \in 1..NumLabels : EMOTION_LABELS[i] = label

\* {label: float(prob) for label, prob in zip(EMOTION_LABELS, probs_array)}
ZipLabels(probs_array) ==
    [l \in LabelSet(Min2(NumLabels, Len(probs_array.data))) |->
        probs_array.data[LabelIndex(l)]]

\* fault variant: the first label is taken, whatever the probabilities
TopEmotionFirst(emotion_probs) == EMOTION_LABELS[1]

\* max(emotion_probs, key=emotion_probs.get): the first label, in insertion
\* order, of maximal probability
TopEmotion(emotion_probs) ==
    LET idx == { LabelIndex(l) : l \in DOMAIN emotion_probs }
        best == CHOOSE i \in idx :
                    /\ \A j \in idx :
                          emotion_probs[EMOTION_LABELS[j]] <= emotion_probs[EMOTION_LABELS[i]]
                    /\ \A j \in idx :
                          j < i => emotion_probs[EMOTION_LABELS[j]] < emotion_probs[EMOTION_LABELS[i]]
    IN  EMOTION_LABELS[best]

\* fault variant: neutral_probs["Neutralita'"] = 1.0 is missing
NeutralDataAllZero ==
    [emotion |-> "Neutralita'",
     probs |-> [l \in LabelSet(NumLabels) |-> 0],
     bbox |-> None]

\* _get_neutral_emotion_data(): a fresh record on every call
_get_neutral_emotion_data ==
    [emotion |-> "Neutralita'",
     probs |-> [l \in LabelSet(NumLabels) |-> IF l = "Neutralita'" THEN SCALE ELSE 0],
     bbox |-> None]

(* ------------------------------ metrics ------------------------------ *)

\* In a probability mapping handed to the metrics functions a float is the
\* record [f |-> n], n in units of 1/SCALE; a value that is no number is None.
Float(n) == [f |-> n]

\* the weights of lines 280-299, in tenths
StressWeights ==
    ("Rabbia" :> 10) @@ ("Disgusto" :> 9) @@ ("Paura" :> 9) @@
    ("Tristezza" :> 5) @@ ("Sorpresa" :> 2)
CalmWeights == ("Neutralita'" :> 10) @@ ("Felicita'" :> 8)
FocusWeights ==
    ("Neutralita'" :> 8) @@ ("Sorpresa" :> 6) @@ ("Felicita'" :> 5) @@
    ("Paura" :> -5) @@ ("Rabbia" :> -5)

\* emotion_probs.get(label, 0)
DictGet(emotion_probs, label) ==
    IF label \in DOMAIN emotion_probs THEN emotion_probs[label] ELSE Float(0)

\* the sum of get(label, 0) * weight over the labels i..7 that have a weight,
\* in units of 1/(10 * SCALE)
RECURSIVE WeightedSum(_, _, _)
WeightedSum(emotion_probs, weights, i) ==
    IF i > NumLabels THEN 0
    ELSE (IF EMOTION_LABELS[i] \in DOMAIN weights
          THEN DictGet(emotion_probs, EMOTION_LABELS[i]).f * weights[EMOTION_LABELS[i]]
          ELSE 0)
         + WeightedSum(emotion_probs, weights, i + 1)

\* max(0.0, min(100.0, s * 100)) for s in units of 1/(10 * SCALE); the value
\* is in units of 1/SCALE
Clamp100(s) == Max2(0, Min2(100 * SCALE, s * 10))

\* round(v, 1)
Round1(v) == PyRound(v, SCALE \div 10) * (SCALE \div 10)

\* what an exception leaves in place of a value
Raised == [raised |-> "Exception"]

\* a dict whose values under the seven labels are all numbers
IsNumberMapping(emotion_probs) ==
    /\ emotion_probs # None
    /\ \A l \in DOMAIN emotion_probs \cap LabelSet(NumLabels) :
          emotion_probs[l] # None

\* lines 280-310, the body of the try block: .get on something that is no
\* mapping raises AttributeError, a value that is no number raises TypeError
MetricsBody(emotion_probs) ==
    IF ~IsNumberMapping(emotion_probs) THEN Raised
    ELSE [stress |-> Round1(Clamp100(WeightedSum(emotion_probs, StressWeights, 1))),
          calm |-> Round1(Clamp100(WeightedSum(emotion_probs, CalmWeights, 1))),
          focus |-> Round1(Clamp100(WeightedSum(emotion_probs, FocusWeights, 1)))]

\* {'stress': 25.0, 'calm': 50.0, 'focus': 50.0}
FallbackMetrics == [stress |-> 25 * SCALE, calm |-> 50 * SCALE, focus |-> 50 * SCALE]

\* fault variant: no except clause around the computation
MapMetricsNoExcept(emotion_probs) == MetricsBody(emotion_probs)

\* fault variant: the values are not clamped
MapMetricsNoClamp(emotion_probs) ==
    IF MetricsBody(emotion_probs) = Raised THEN FallbackMetrics
    ELSE [stress |-> Round1(10 * WeightedSum(emotion_probs, StressWeights, 1)),
          calm |-> Round1(10 * WeightedSum(emotion_probs, CalmWeights, 1)),
          focus |-> Round1(10 * WeightedSum(emotion_probs, FocusWeights, 1))]

\* fault variant: focus does not subtract Paura and Rabbia
MapMetricsFocusAdds(emotion_probs) ==
    IF MetricsBody(emotion_probs) = Raised THEN FallbackMetrics
    ELSE [MetricsBody(emotion_probs) EXCEPT
            !.focus = Round1(Clamp100(
                        WeightedSum(emotion_probs, FocusWeights, 1)
                        + 10 * DictGet(emotion_probs, "Paura").f
                        + 10 * DictGet(emotion_probs, "Rabbia").f))]

\* _map_emotions_to_metrics: lines 279-319
_map_emotions_to_metrics(emotion_probs) ==
    IF MetricsBody(emotion_probs) = Raised THEN FallbackMetrics
    ELSE MetricsBody(emotion_probs)

\* an empty dict
EmptyDict == [l \in {} |-> 0]

\* get_emotion_metrics: lines 417-420
get_emotion_metrics(emotion_data) ==
    IF emotion_data = None \/ DOMAIN emotion_data = {}
          \/ "probs" \notin DOMAIN emotion_data
    THEN FallbackMetrics
    ELSE _map_emotions_to_metrics(emotion_data.probs)

(* ------------------------------- state -------------------------------- *)

VARIABLES
    _model,          \* module global: None or [id, kind], id numbers the load
    _cascade,        \* module global: None or [id, src]
    _model_lock,     \* threading.Lock: 0 when free, else the thread holding it
    _infer_lock,     \* threading.Lock: 0 when free, else the thread holding it
    cascade_work,    \* the frame the shared cascade object is working on
    model_work,      \* the tensor the shared model object is working on
    calls,           \* calls of analyze_frame started so far
    pc,              \* per thread: where it is in analyze_frame
    frame,           \* per thread: the argument and locals of the running call
    result,          \* per thread: what the last call returned
    outcome,         \* per thread: "none", "returned" or "raised" (last call)
    stages           \* per thread: the stages the last call ran, in order

globals == << _model, _cascade, _model_lock, _infer_lock, cascade_work, model_work >>
vars == << _model, _cascade, _model_lock, _infer_lock, cascade_work, model_work,
           calls, pc, frame, result, outcome, stages >>

\* the argument image_data_url and the locals of analyze_frame and of
\* _load_model_and_cascade, before any is assigned
NoFrame ==
    [image_data_url |-> None, model |-> None, cascade |-> None,
     cascade_loaded |-> FALSE, image_bgr |-> None, face_bbox |-> None,
     bbox2 |-> None, face_input |-> None, predictions |-> None,
     probs_array |-> None]

Init ==
    /\ _model = None
    /\ _cascade = None
    /\ _model_lock = 0
    /\ _infer_lock = 0
    /\ cascade_work = None
    /\ model_work = None
    /\ calls = 0
    /\ pc = [t \in Threads |-> "idle"]
    /\ frame = [t \in Threads |-> NoFrame]
    /\ result = [t \in Threads |-> None]
    /\ outcome = [t \in Threads |-> "none"]
    /\ stages = [t \in Threads |-> << >>]

Goto(t, label) == pc' = [pc EXCEPT ![t] = label]
Ran(t, stage) == stages' = [stages EXCEPT ![t] = Append(@, stage)]

\* threading.Lock.acquire (blocking): enabled only when the lock is free
CanAcquire(lock) == lock = 0

\* a return statement of analyze_frame: the caller receives value, the
\* frame's argument and locals are dropped
Return(t, value) ==
    /\ result' = [result EXCEPT ![t] = value]
    /\ outcome' = [outcome EXCEPT ![t] = "returned"]
    /\ frame' = [frame EXCEPT ![t] = NoFrame]
    /\ Goto(t, "idle")

(* ------------------- a worker thread calls analyze_frame --------------- *)

\* image_data_url is first read by line 350: the argument is drawn there
Call(t) ==
    /\ pc[t] = "idle"
    /\ calls < MaxCalls
    /\ calls' = calls + 1
    /\ frame' = [frame EXCEPT ![t] = NoFrame]
    /\ result' = [result EXCEPT ![t] = None]
    /\ outcome' = [outcome EXCEPT ![t] = "none"]
    /\ stages' = [stages EXCEPT ![t] = << "load" >>]
    /\ Goto(t, "check_model")
    /\ UNCHANGED globals

(* ----------------------- _load_model_and_cascade ----------------------- *)

\* line 50, first operand: _model is not None
CheckModel(t) ==
    /\ pc[t] = "check_model"
    /\ Goto(t, IF _model # None THEN "check_cascade" ELSE "model_lock")
    /\ UNCHANGED << globals, calls, frame, result, outcome, stages >>

\* fault variant: the lock-free return is never taken
CheckCascadeAlwaysLocks(t) ==
    /\ pc[t] = "check_cascade"
    /\ Goto(t, "model_lock")
    /\ UNCHANGED << globals, calls, frame, result, outcome, stages >>

\* line 50, second operand: _cascade is not None
CheckCascade(t) ==
    /\ pc[t] = "check_cascade"
    /\ Goto(t, IF _cascade # None THEN "return_model" ELSE "model_lock")
    /\ UNCHANGED << globals, calls, frame, result, outcome, stages >>

\* line 51: return _model, _cascade (the two globals are read one by one)
ReturnModel(t) ==
    /\ pc[t] = "return_model"
    /\ frame' = [frame EXCEPT ![t].model = _model]
    /\ Goto(t, "return_cascade")
    /\ UNCHANGED << globals, calls, result, outcome, stages >>

ReturnCascade(t) ==
    /\ pc[t] = "return_cascade"
    /\ frame' = [frame EXCEPT ![t].cascade = _cascade]
    /\ Goto(t, "check_bundle")
    /\ UNCHANGED << globals, calls, result, outcome, stages >>

\* fault variant: the initialization lock is taken without waiting for it
AcquireModelLockNoWait(t) ==
    /\ pc[t] = "model_lock"
    /\ _model_lock' = t
    /\ Goto(t, "recheck")
    /\ UNCHANGED << _model, _cascade, _infer_lock, cascade_work, model_work,
                    calls, frame, result, outcome, stages >>

\* line 53: with _model_lock
AcquireModelLock(t) ==
    /\ pc[t] = "model_lock"
    /\ CanAcquire(_model_lock)
    /\ _model_lock' = t
    /\ Goto(t, "recheck")
    /\ UNCHANGED << _model, _cascade, _infer_lock, cascade_work, model_work,
                    calls, frame, result, outcome, stages >>

\* fault variant: no second check under the lock
RecheckAlwaysLoads(t) ==
    /\ pc[t] = "recheck"
    /\ Goto(t, "load_model")
    /\ UNCHANGED << globals, calls, frame, result, outcome, stages >>

\* fault variant: a model cached by an earlier, failed load is not loaded again
RecheckKeepsCachedModel(t) ==
    /\ pc[t] = "recheck"
    /\ IF _model # None /\ _cascade # None
       THEN /\ frame' = [frame EXCEPT ![t].model = _model, ![t].cascade = _cascade]
            /\ _model_lock' = 0
            /\ Goto(t, "check_bundle")
       ELSE /\ Goto(t, IF _model # None THEN "load_custom" ELSE "load_model")
            /\ UNCHANGED << frame, _model_lock >>
    /\ UNCHANGED << _model, _cascade, _infer_lock, cascade_work, model_work,
                    calls, result, outcome, stages >>

\* lines 54-55: the second check, under the lock
Recheck(t) ==
    /\ pc[t] = "recheck"
    /\ IF _model # None /\ _cascade # None
       THEN /\ frame' = [frame EXCEPT ![t].model = _model, ![t].cascade = _cascade]
            /\ _model_lock' = 0
            /\ Goto(t, "check_bundle")
       ELSE /\ Goto(t, "load_model")
            /\ UNCHANGED << frame, _model_lock >>
    /\ UNCHANGED << _model, _cascade, _infer_lock, cascade_work, model_work,
                    calls, result, outcome, stages >>

NextId(obj) == IF obj = None THEN 1 ELSE obj.id + 1

\* fault variant: the with block ends after load_model, the cascades are
\* loaded without _model_lock
LoadModelReleasesLock(t) ==
    /\ pc[t] = "load_model"
    /\ _model_lock' = 0
    /\ \E file \in ModelFiles :
          IF file \in { "absent", "corrupt" }
          THEN /\ Goto(t, "check_bundle")
               /\ UNCHANGED _model
          ELSE /\ _model' = [id |-> NextId(_model), kind |-> file]
               /\ Goto(t, "load_custom")
    /\ UNCHANGED << _cascade, _infer_lock, cascade_work, model_work,
                    calls, frame, result, outcome, stages >>

\* lines 57-75: import, paths, model_path.exists(), load_model.  An absent
\* file returns (None, None); an exception (ImportError, a file Keras cannot
\* load) reaches the handlers of lines 108-121, which return (None, None).
LoadModel(t) ==
    /\ pc[t] = "load_model"
    /\ \E file \in ModelFiles :
          IF file \in { "absent", "corrupt" }
          THEN /\ _model_lock' = 0
               /\ Goto(t, "check_bundle")
               /\ UNCHANGED _model
          ELSE /\ _model' = [id |-> NextId(_model), kind |-> file]
               /\ Goto(t, "load_custom")
               /\ UNCHANGED _model_lock
    /\ UNCHANGED << _cascade, _infer_lock, cascade_work, model_work,
                    calls, frame, result, outcome, stages >>

\* fault variant: the built-in cascade is tried whatever the custom one gave
LoadCustomCascadeThenFallback(t) ==
    /\ pc[t] = "load_custom"
    /\ \E file \in CustomCascadeFiles :
          IF file = "ok"
          THEN /\ _cascade' = [id |-> NextId(_cascade), src |-> "custom"]
               /\ frame' = [frame EXCEPT ![t].cascade_loaded = TRUE]
          ELSE UNCHANGED << _cascade, frame >>
    /\ Goto(t, "load_fallback")
    /\ UNCHANGED << _model, _model_lock, _infer_lock, cascade_work, model_work,
                    calls, result, outcome, stages >>

\* lines 78-89: the custom cascade at HAAR_CASCADE_PATH
LoadCustomCascade(t) ==
    /\ pc[t] = "load_custom"
    /\ \E file \in CustomCascadeFiles :
          IF file = "ok"
          THEN /\ _cascade' = [id |-> NextId(_cascade), src |-> "custom"]
               /\ frame' = [frame EXCEPT ![t].cascade_loaded = TRUE]
               /\ Goto(t, "load_return")
          ELSE /\ Goto(t, "load_fallback")
               /\ UNCHANGED << _cascade, frame >>
    /\ UNCHANGED << _model, _model_lock, _infer_lock, cascade_work, model_work,
                    calls, result, outcome, stages >>

\* lines 91-100: the cascade bundled with OpenCV
LoadFallbackCascade(t) ==
    /\ pc[t] = "load_fallback"
    /\ \E file \in BuiltinCascadeFiles :
          IF file = "ok"
          THEN /\ _cascade' = [id |-> NextId(_cascade), src |-> "builtin"]
               /\ frame' = [frame EXCEPT ![t].cascade_loaded = TRUE]
          ELSE UNCHANGED << _cascade, frame >>
    /\ Goto(t, "load_return")
    /\ UNCHANGED << _model, _model_lock, _infer_lock, cascade_work, model_work,
                    calls, result, outcome, stages >>

\* fault variant: the return does not release _model_lock
LoadReturnKeepsLock(t) ==
    /\ pc[t] = "load_return"
    /\ IF frame[t].cascade_loaded
       THEN frame' = [frame EXCEPT ![t].model = _model, ![t].cascade = _cascade]
       ELSE UNCHANGED frame
    /\ Goto(t, "check_bundle")
    /\ UNCHANGED << globals, calls, result, outcome, stages >>

\* fault variant: no `if not cascade_loaded` before return _model, _cascade
LoadReturnNoCheck(t) ==
    /\ pc[t] = "load_return"
    /\ frame' = [frame EXCEPT ![t].model = _model, ![t].cascade = _cascade]
    /\ _model_lock' = 0
    /\ Goto(t, "check_bundle")
    /\ UNCHANGED << _model, _cascade, _infer_lock, cascade_work, model_work,
                    calls, result, outcome, stages >>

\* lines 102-106: return (None, None) or (_model, _cascade); the with block
\* releases _model_lock
LoadReturn(t) ==
    /\ pc[t] = "load_return"
    /\ IF frame[t].cascade_loaded
       THEN frame' = [frame EXCEPT ![t].model = _model, ![t].cascade = _cascade]
       ELSE UNCHANGED frame
    /\ _model_lock' = 0
    /\ Goto(t, "check_bundle")
    /\ UNCHANGED << _model, _cascade, _infer_lock, cascade_work, model_work,
                    calls, result, outcome, stages >>

(* ------------------------------ analyze_frame -------------------------- *)

\* line 346: model is None or cascade is None
BundleMissing(t) == frame[t].model = None \/ frame[t].cascade = None

\* fault variant: the bundle is not checked
CheckBundleNoReturn(t) ==
    /\ pc[t] = "check_bundle"
    /\ Goto(t, "decode")
    /\ UNCHANGED << globals, calls, frame, result, outcome, stages >>

\* lines 345-347, after _load_model_and_cascade has returned
CheckBundle(t) ==
    /\ pc[t] = "check_bundle"
    /\ IF BundleMissing(t)
       THEN Return(t, None)
       ELSE /\ Goto(t, "decode")
            /\ UNCHANGED << frame, result, outcome >>
    /\ UNCHANGED << globals, calls, stages >>

\* fault variant: image_bgr is not checked for None
DecodeNoCheck(t) ==
    /\ pc[t] = "decode"
    /\ Ran(t, "decode")
    /\ \E url \in DataUrls :
         frame' = [frame EXCEPT ![t].image_bgr = _decode_base64_image(url),
                                ![t].image_data_url = url]
    /\ Goto(t, "infer_lock")
    /\ UNCHANGED << globals, calls, result, outcome >>

\* lines 350-352, for the image_data_url this call was given
Decode(t) ==
    /\ pc[t] = "decode"
    /\ Ran(t, "decode")
    /\ \E url \in DataUrls :
         LET img == _decode_base64_image(url)
         IN  IF img = None
             THEN Return(t, None)
             ELSE /\ frame' = [frame EXCEPT ![t].image_bgr = img, ![t].image_data_url = url]
                  /\ Goto(t, "infer_lock")
                  /\ UNCHANGED << result, outcome >>
    /\ UNCHANGED << globals, calls >>

\* fault variant: the inference lock is taken without waiting for it
AcquireInferLockNoWait(t) ==
    /\ pc[t] = "infer_lock"
    /\ _infer_lock' = t
    /\ Ran(t, "lock")
    /\ Goto(t, "detect")
    /\ UNCHANGED << _model, _cascade, _model_lock, cascade_work, model_work,
                    calls, frame, result, outcome >>

\* line 355: with _infer_lock
AcquireInferLock(t) ==
    /\ pc[t] = "infer_lock"
    /\ CanAcquire(_infer_lock)
    /\ _infer_lock' = t
    /\ Ran(t, "lock")
    /\ Goto(t, "detect")
    /\ UNCHANGED << _model, _cascade, _model_lock, cascade_work, model_work,
                    calls, frame, result, outcome >>

\* line 357: _detect_largest_face hands the frame to the shared cascade
DetectBegin(t) ==
    /\ pc[t] = "detect"
    /\ cascade_work' = frame[t].image_bgr
    /\ Ran(t, "detect")
    /\ Goto(t, "detecting")
    /\ UNCHANGED << _model, _cascade, _model_lock, _infer_lock, model_work,
                    calls, frame, result, outcome >>

\* the with block of line 355 is left: _infer_lock is released
ReleaseInferLock == _infer_lock' = 0

\* fault variant: the with block ends after face detection
DetectEndReleases(t) ==
    /\ pc[t] = "detecting"
    /\ cascade_work' = None
    /\ ReleaseInferLock
    /\ LET found == DetectOn(cascade_work)
       IN  IF found = None
           THEN Return(t, _get_neutral_emotion_data)
           ELSE /\ frame' = [frame EXCEPT ![t].face_bbox = found]
                /\ Goto(t, "expand")
                /\ UNCHANGED << result, outcome >>
    /\ UNCHANGED << _model, _cascade, _model_lock, model_work, calls, stages >>

\* fault variant: the no-face return leaves the lock held
DetectEndKeepsLock(t) ==
    /\ pc[t] = "detecting"
    /\ cascade_work' = None
    /\ LET found == DetectOn(cascade_work)
       IN  IF found = None
           THEN Return(t, _get_neutral_emotion_data)
           ELSE /\ frame' = [frame EXCEPT ![t].face_bbox = found]
                /\ Goto(t, "expand")
                /\ UNCHANGED << result, outcome >>
    /\ UNCHANGED << _model, _cascade, _model_lock, _infer_lock, model_work,
                    calls, stages >>

\* fault variant: an exception of the detector is not caught by
\* _detect_largest_face and reaches the handler of analyze_frame
DetectEndErrorEscapes(t) ==
    /\ pc[t] = "detecting"
    /\ cascade_work' = None
    /\ IF cascade_work # None /\ cascade_work.derr
       THEN /\ ReleaseInferLock
            /\ Goto(t, "handler")
            /\ UNCHANGED << frame, result, outcome >>
       ELSE LET found == DetectOn(cascade_work)
            IN  IF found = None
                THEN /\ Return(t, _get_neutral_emotion_data)
                     /\ ReleaseInferLock
                ELSE /\ frame' = [frame EXCEPT ![t].face_bbox = found]
                     /\ Goto(t, "expand")
                     /\ UNCHANGED << _infer_lock, result, outcome >>
    /\ UNCHANGED << _model, _cascade, _model_lock, model_work, calls, stages >>

\* lines 357-362: the cascade answers; no face returns the neutral data
DetectEnd(t) ==
    /\ pc[t] = "detecting"
    /\ cascade_work' = None
    /\ LET found == DetectOn(cascade_work)
       IN  IF found = None
           THEN /\ Return(t, _get_neutral_emotion_data)
                /\ ReleaseInferLock
           ELSE /\ frame' = [frame EXCEPT ![t].face_bbox = found]
                /\ Goto(t, "expand")
                /\ UNCHANGED << _infer_lock, result, outcome >>
    /\ UNCHANGED << _model, _cascade, _model_lock, model_work, calls, stages >>

\* line 365
Expand(t) ==
    /\ pc[t] = "expand"
    /\ frame' = [frame EXCEPT ![t].bbox2 =
                    _expand_bbox(ImageShape(frame[t].image_bgr), frame[t].face_bbox,
                                 MarginNum, MarginDen, TRUE)]
    /\ Ran(t, "expand")
    /\ Goto(t, "preprocess")
    /\ UNCHANGED << globals, calls, result, outcome >>

\* current_app.config.get('EMOTION_PREPROCESS_MODE', 'rgb01'): config.py sets
\* no such key
PreprocessMode == "rgb01"

\* fault variant: face_input is not checked for None
PreprocessNoCheck(t) ==
    /\ pc[t] = "preprocess"
    /\ Ran(t, "preprocess")
    /\ frame' = [frame EXCEPT ![t].face_input =
                    _preprocess_face_image(frame[t].image_bgr, frame[t].bbox2,
                                           InputShapeOf(frame[t].model),
                                           PreprocessMode)]
    /\ Goto(t, "predict")
    /\ UNCHANGED << globals, calls, result, outcome >>

\* fault variant: the return of line 372 leaves _infer_lock held
PreprocessKeepsLock(t) ==
    /\ pc[t] = "preprocess"
    /\ Ran(t, "preprocess")
    /\ LET tensor == _preprocess_face_image(frame[t].image_bgr, frame[t].bbox2,
                                            InputShapeOf(frame[t].model),
                                            PreprocessMode)
       IN  IF tensor = None
           THEN Return(t, None)
           ELSE /\ frame' = [frame EXCEPT ![t].face_input = tensor]
                /\ Goto(t, "predict")
                /\ UNCHANGED << result, outcome >>
    /\ UNCHANGED << _model, _cascade, _model_lock, _infer_lock, cascade_work,
                    model_work, calls >>

\* lines 368-372
Preprocess(t) ==
    /\ pc[t] = "preprocess"
    /\ Ran(t, "preprocess")
    /\ LET tensor == _preprocess_face_image(frame[t].image_bgr, frame[t].bbox2,
                                            InputShapeOf(frame[t].model),
                                            PreprocessMode)
       IN  IF tensor = None
           THEN /\ Return(t, None)
                /\ ReleaseInferLock
           ELSE /\ frame' = [frame EXCEPT ![t].face_input = tensor]
                /\ Goto(t, "predict")
                /\ UNCHANGED << _infer_lock, result, outcome >>
    /\ UNCHANGED << _model, _cascade, _model_lock, cascade_work, model_work, calls >>

\* line 375: model.predict hands the tensor to the shared model
PredictBegin(t) ==
    /\ pc[t] = "predict"
    /\ model_work' = frame[t].face_input
    /\ Ran(t, "predict")
    /\ Goto(t, "predicting")
    /\ UNCHANGED << _model, _cascade, _model_lock, _infer_lock, cascade_work,
                    calls, frame, result, outcome >>

\* fault variant: the with block does not end after model.predict
PredictEndKeepsLock(t) ==
    /\ pc[t] = "predicting"
    /\ model_work' = None
    /\ IF PredictRaises(frame[t].model, model_work)
       THEN /\ Goto(t, "handler")
            /\ UNCHANGED frame
       ELSE /\ frame' = [frame EXCEPT ![t].predictions =
                            PredictOn(frame[t].model, model_work)]
            /\ Goto(t, "normalize")
    /\ UNCHANGED << _model, _cascade, _model_lock, _infer_lock, cascade_work,
                    calls, result, outcome, stages >>

\* line 375 ends: predictions, or an exception that leaves the with block
\* (releasing _infer_lock) for the handler of line 405
PredictEnd(t) ==
    /\ pc[t] = "predicting"
    /\ model_work' = None
    /\ ReleaseInferLock
    /\ IF PredictRaises(frame[t].model, model_work)
       THEN /\ Goto(t, "handler")
            /\ UNCHANGED frame
       ELSE /\ frame' = [frame EXCEPT ![t].predictions =
                            PredictOn(frame[t].model, model_work)]
            /\ Goto(t, "normalize")
    /\ UNCHANGED << _model, _cascade, _model_lock, cascade_work, calls,
                    result, outcome, stages >>

\* fault variant: the length of the vector is not checked
NormalizeNoLengthCheck(t) ==
    /\ pc[t] = "normalize"
    /\ Ran(t, "normalize")
    /\ LET probs == _to_probabilities(frame[t].predictions)
       IN  IF probs = None
           THEN Return(t, None)
           ELSE /\ frame' = [frame EXCEPT ![t].probs_array = probs]
                /\ Goto(t, "build")
                /\ UNCHANGED << result, outcome >>
    /\ UNCHANGED << globals, calls >>

\* lines 378-384
Normalize(t) ==
    /\ pc[t] = "normalize"
    /\ Ran(t, "normalize")
    /\ LET probs == _to_probabilities(frame[t].predictions)
       IN  IF probs = None \/ Len(probs.data) # Len(EMOTION_LABELS)
           THEN Return(t, None)
           ELSE /\ frame' = [frame EXCEPT ![t].probs_array = probs]
                /\ Goto(t, "build")
                /\ UNCHANGED << result, outcome >>
    /\ UNCHANGED << globals, calls >>

\* lines 387-403
BuildResult(t) ==
    /\ pc[t] = "build"
    /\ LET emotion_probs == ZipLabels(frame[t].probs_array)
       IN  Return(t, [emotion |-> TopEmotion(emotion_probs),
                      probs |-> emotion_probs,
                      bbox |-> frame[t].bbox2])
    /\ UNCHANGED << globals, calls, stages >>

\* fault variant: the exception is not caught
ExceptHandlerReraises(t) ==
    /\ pc[t] = "handler"
    /\ result' = [result EXCEPT ![t] = None]
    /\ outcome' = [outcome EXCEPT ![t] = "raised"]
    /\ frame' = [frame EXCEPT ![t] = NoFrame]
    /\ Goto(t, "idle")
    /\ UNCHANGED << globals, calls, stages >>

\* lines 405-411: except Exception, log, return None
ExceptHandler(t) ==
    /\ pc[t] = "handler"
    /\ Return(t, None)
    /\ UNCHANGED << globals, calls, stages >>

(* ---------------------------- specification ---------------------------- *)

\* one step of thread t inside a call
Step(t) ==
    \/ CheckModel(t)
    \/ CheckCascade(t)
    \/ ReturnModel(t)
    \/ ReturnCascade(t)
    \/ AcquireModelLock(t)
    \/ Recheck(t)
    \/ LoadModel(t)
    \/ LoadCustomCascade(t)
    \/ LoadFallbackCascade(t)
    \/ LoadReturn(t)
    \/ CheckBundle(t)
    \/ Decode(t)
    \/ AcquireInferLock(t)
    \/ DetectBegin(t)
    \/ DetectEnd(t)
    \/ Expand(t)
    \/ Preprocess(t)
    \/ PredictBegin(t)
    \/ PredictEnd(t)
    \/ Normalize(t)
    \/ BuildResult(t)
    \/ ExceptHandler(t)

Next == \E t \in Threads : Call(t) \/ Step(t)

Spec == Init /\ [][Next]_vars

\* the scheduler runs every thread that can take a step
FairSpec == Spec /\ \A t \in Threads : WF_vars(Step(t))

(* ------------------- _expand_bbox applied by itself -------------------- *)

\* image sides run over 1..MaxSide, box corners over 0..MaxSide, box sides
\* over 1..MaxSide
MaxSide == 4
\* margins are 0/4, 1/4, ..., MaxMarginNum/4
MaxMarginNum == 4
\* how often the returned box is passed to _expand_bbox again
MaxRepeat == 2

\* the arguments of a call: image_shape = (h_img, w_img, 3), bbox, margin =
\* mnum/MarginDen, make_square; bbox0 keeps the box of the first call
ExpandArgs ==
    { [image_shape |-> << hi, wi, 3 >>, bbox |-> b, bbox0 |-> b,
       mnum |-> m, make_square |-> sq] :
        hi \in 1..MaxSide, wi \in 1..MaxSide,
        b \in [x : 0..MaxSide, y : 0..MaxSide, w : 1..MaxSide, h : 1..MaxSide],
        m \in 0..MaxMarginNum, sq \in BOOLEAN }

\* frame holds the arguments, result the box returned, calls the number of
\* repeated applications; nothing is loaded and no lock is taken
ExpandInit ==
    /\ _model = None
    /\ _cascade = None
    /\ _model_lock = 0
    /\ _infer_lock = 0
    /\ cascade_work = None
    /\ model_work = None
    /\ calls = 0
    /\ pc = "call"
    /\ frame \in ExpandArgs
    /\ result = None
    /\ outcome = "none"
    /\ stages = << >>

\* lines 169-198, called on the arguments
ExpandApply ==
    /\ pc = "call"
    /\ result' = _expand_bbox(frame.image_shape, frame.bbox, frame.mnum,
                              MarginDen, frame.make_square)
    /\ pc' = "returned"
    /\ outcome' = "returned"
    /\ UNCHANGED << globals, calls, frame, stages >>

\* the box returned is the bbox of the next call, other arguments unchanged
ExpandAgain ==
    /\ pc = "returned"
    /\ calls < MaxRepeat
    /\ calls' = calls + 1
    /\ frame' = [frame EXCEPT !.bbox = result]
    /\ pc' = "call"
    /\ UNCHANGED << globals, result, outcome, stages >>

ExpandNext == ExpandApply \/ ExpandAgain

ExpandSpec == ExpandInit /\ [][ExpandNext]_vars

(* ------------- the metrics functions applied by themselves ------------- *)

\* probabilities run over the thirds k/3 for k in -1..MaxProbNum
MaxProbNum == 4
\* the number of labels whose entry is not 0.0
MaxChanged == 3

ProbGrid == { Float((k * SCALE) \div 3) : k \in -1..MaxProbNum }

\* a label the mapping does not hold
Missing == [missing |-> TRUE]

DropMissing(m) == [l \in { k \in DOMAIN m : m[k] # Missing } |-> m[l]]

\* the sets of MaxChanged labels
ChangedSets == { T \in SUBSET LabelSet(NumLabels) : Cardinality(T) = MaxChanged }

\* a mapping of numbers: 0.0 under every label but those of S, each of which
\* is absent or has the value ch gives it
ProbMapping(S, ch) ==
    DropMissing([l \in LabelSet(NumLabels) |-> IF l \in S THEN ch[l] ELSE Float(0)])

\* mappings with a value that is no number
BadMappings ==
    { [l \in LabelSet(NumLabels) |-> IF l = bad THEN None ELSE Float(0)] :
        bad \in LabelSet(NumLabels) }

\* emotion_data that yields the fallback: None, {}, a dict without 'probs',
\* a dict whose 'probs' is None or holds a value that is no number
FallbackArgs ==
    { None, EmptyDict, [emotion |-> "Neutralita'", bbox |-> None],
      [emotion |-> "Neutralita'", probs |-> None, bbox |-> None] }
    \cup { [emotion |-> "Neutralita'", probs |-> m, bbox |-> None] :
             m \in BadMappings }

\* frame holds emotion_data, result what the function returned, stages the
\* function that was called; nothing is loaded and no lock is taken
MetricsInit ==
    /\ _model = None
    /\ _cascade = None
    /\ _model_lock = 0
    /\ _infer_lock = 0
    /\ cascade_work = None
    /\ model_work = None
    /\ calls = 0
    /\ pc = "call"
    /\ \/ frame \in FallbackArgs
       \/ \E S \in ChangedSets :
            \E ch \in [S -> ProbGrid \cup { Missing }] :
               frame = [emotion |-> "Neutralita'", probs |-> ProbMapping(S, ch),
                        bbox |-> None]
    /\ result = None
    /\ outcome = "none"
    /\ stages = << >>

\* the caller receives value, or the exception the call ended with
Returns(value) ==
    /\ result' = value
    /\ outcome' = IF value = Raised THEN "raised" ELSE "returned"
    /\ pc' = "returned"

\* get_emotion_metrics(emotion_data)
GetMetrics ==
    /\ pc = "call"
    /\ Returns(get_emotion_metrics(frame))
    /\ stages' = << "get_emotion_metrics" >>
    /\ UNCHANGED << globals, calls, frame >>

\* _map_emotions_to_metrics(emotion_data['probs'])
MapMetrics ==
    /\ pc = "call"
    /\ frame # None
    /\ "probs" \in DOMAIN frame
    /\ Returns(_map_emotions_to_metrics(frame.probs))
    /\ stages' = << "_map_emotions_to_metrics" >>
    /\ UNCHANGED << globals, calls, frame >>

MetricsNext == GetMetrics \/ MapMetrics

MetricsSpec == MetricsInit /\ [][MetricsNext]_vars

(* ----------------- _to_probabilities applied by itself ------------------ *)

\* raw vectors have 0..MaxVecLen entries
MaxVecLen == 3

\* the entries: -1.0, -1e-6, 0.0, 1e-6, 0.5, 1.0, 1.000001 and the huge 20.0
RawValues == { -SCALE, -1, 0, 1, SCALE \div 2, SCALE, SCALE + 1, 20 * SCALE }

RawVectors == UNION { [1..n -> RawValues] : n \in 0..MaxVecLen }

\* frame holds predictions (a batch of one row, or the row itself), result
\* what _to_probabilities returned; nothing is loaded and no lock is taken
NormalizeInit ==
    /\ _model = None
    /\ _cascade = None
    /\ _model_lock = 0
    /\ _infer_lock = 0
    /\ cascade_work = None
    /\ model_work = None
    /\ calls = 0
    /\ pc = "call"
    /\ \E v \in RawVectors :
          \/ frame = [ndim |-> 2, data |-> << v >>]
          \/ frame = [ndim |-> 1, data |-> v]
    /\ result = None
    /\ outcome = "none"
    /\ stages = << >>

\* lines 252-273, called on predictions
NormalizeApply ==
    /\ pc = "call"
    /\ result' = _to_probabilities(frame)
    /\ pc' = "returned"
    /\ outcome' = "returned"
    /\ UNCHANGED << globals, calls, frame, stages >>

NormalizeNext == NormalizeApply

NormalizeSpec == NormalizeInit /\ [][NormalizeNext]_vars

(* ------------------------------ properties ----------------------------- *)

\* between the start of face detection and the end of model.predict
InCritical(t) ==
    pc[t] \in { "detect", "detecting", "expand", "preprocess", "predict", "predicting" }

\* executing the load sequence of _load_model_and_cascade (lines 57-106)
InLoad(t) == pc[t] \in { "load_model", "load_custom", "load_fallback", "load_return" }

\* inside the with _model_lock block
UnderModelLock(t) == pc[t] = "recheck" \/ InLoad(t)

Loaded == _model # None /\ _cascade # None

\* analyze_frame run alone on a loaded bundle: the value it returns
AnalyzeAlone(url, m, c) ==
    LET img == _decode_base64_image(url)
    IN  IF img = None THEN None
        ELSE LET face == _detect_largest_face(img, c)
             IN  IF face = None
                 THEN [emotion |-> "Neutralita'",
                       probs |-> [l \in LabelSet(NumLabels) |->
                                     IF l = "Neutralita'" THEN SCALE ELSE 0],
                       bbox |-> None]
                 ELSE LET box == _expand_bbox(ImageShape(img), face,
                                              MarginNum, MarginDen, TRUE)
                          tensor == _preprocess_face_image(img, box, InputShapeOf(m),
                                                           PreprocessMode)
                      IN  IF tensor = None \/ PredictRaises(m, tensor) THEN None
                          ELSE LET probs == _to_probabilities(PredictOn(m, tensor))
                               IN  IF probs = None \/ Len(probs.data) # NumLabels
                                   THEN None
                                   ELSE [emotion |-> TopEmotion(ZipLabels(probs)),
                                         probs |-> ZipLabels(probs),
                                         bbox |-> box]

\* C1: in every interleaving at most one thread is between the start of face
\* detection and the end of model inference.
C1_InferenceMutex ==
    \A s, t \in Threads : s # t => ~(InCritical(s) /\ InCritical(t))

C1_Witness ==
    \E s, t \in Threads : s # t /\ pc[s] = "predicting" /\ pc[t] = "infer_lock"

\* C2: at most one thread executes the load sequence; while one does, every
\* other thread inside _load_model_and_cascade is on the lock-free path or
\* waits for the initialization lock.
C2_LoadMutex ==
    \A s, t \in Threads : (s # t /\ InLoad(s)) => ~UnderModelLock(t)

C2_Witness ==
    \E s, t \in Threads : s # t /\ pc[s] = "load_custom" /\ pc[t] = "model_lock"

\* C3 (as claimed): in every reachable state the cached model and the cached
\* cascade are both absent or both present.
C3_BothOrNeither == (_model = None) <=> (_cascade = None)

\* C4: once model and cascade are both cached, no step reassigns either, no
\* thread starts or continues loading, and every return of
\* _load_model_and_cascade hands out the cached pair.
C4_LoadedIsStable ==
    [][ Loaded =>
          /\ _model' = _model
          /\ _cascade' = _cascade
          /\ \A t \in Threads :
                /\ pc'[t] \notin { "load_model", "load_custom", "load_fallback" }
                /\ (pc[t] # "check_bundle" /\ pc'[t] = "check_bundle") =>
                      (frame'[t].model = _model /\ frame'[t].cascade = _cascade) ]_vars

C4_Witness ==
    \E s, t \in Threads :
        /\ s # t /\ Loaded
        /\ pc[s] = "idle" /\ outcome[s] = "returned" /\ result[s] # None
        /\ pc[t] = "check_bundle" /\ frame[t].model = _model

\* C5: no call of analyze_frame ends by raising; a call that has ended has
\* returned None or a result record.
C5_NeverRaises ==
    \A t \in Threads :
        /\ outcome[t] # "raised"
        /\ (pc[t] = "idle" /\ stages[t] # << >>) =>
              /\ outcome[t] = "returned"
              /\ (result[t] = None \/ DOMAIN result[t] = { "emotion", "probs", "bbox" })

C5_Witness ==
    \E t \in Threads :
        /\ pc[t] = "idle" /\ outcome[t] = "returned" /\ result[t] = None
        /\ stages[t] = << "load", "decode", "lock", "detect", "expand",
                          "preprocess", "predict" >>

\* C6: on a loaded bundle every call that decoded its input returns what that
\* input gives when the call runs alone, whatever the other threads do.
C6_IndependentResults ==
    [][ \A t \in Threads :
          (pc[t] # "idle" /\ pc'[t] = "idle" /\ frame[t].image_bgr # None) =>
              result'[t] = AnalyzeAlone(frame[t].image_data_url, frame[t].model,
                                        frame[t].cascade) ]_vars

C6_Witness ==
    \E s, t \in Threads :
        /\ s # t
        /\ pc[s] = "normalize" /\ pc[t] = "predicting"
        /\ frame[s].face_input # frame[t].face_input

\* C7: under fair scheduling every call of analyze_frame returns.
C7_EveryCallReturns ==
    \A t \in Threads : (pc[t] # "idle") ~> (pc[t] = "idle")

C7_Witness ==
    \E s, t \in Threads :
        /\ s # t
        /\ pc[t] = "infer_lock" /\ _infer_lock = s
        /\ frame[s].image_bgr # None /\ frame[s].image_bgr.id = "noface"

\* C8: a call whose bundle is unavailable returns None in its next step,
\* having run no stage but the load.
C8_UnavailableReturnsAtOnce ==
    [][ \A t \in Threads :
          (pc[t] = "check_bundle" /\ (frame[t].model = None \/ frame[t].cascade = None)) =>
              \/ pc'[t] = "check_bundle"
              \/ /\ pc'[t] = "idle"
                 /\ result'[t] = None
                 /\ outcome'[t] = "returned"
                 /\ stages'[t] = << "load" >>
                 /\ _infer_lock' = _infer_lock ]_vars

C8_Witness ==
    \E t \in Threads :
        /\ pc[t] = "idle" /\ outcome[t] = "returned" /\ result[t] = None
        /\ stages[t] = << "load" >>

\* C9: the decode step either yields a frame, with which the call goes on, or
\* the call returns None there without having touched the inference lock.
C9_InvalidImageReturnsNone ==
    [][ \A t \in Threads :
          pc[t] = "decode" =>
              \/ pc'[t] = "decode"
              \/ /\ pc'[t] = "idle"
                 /\ result'[t] = None
                 /\ outcome'[t] = "returned"
                 /\ stages'[t] = << "load", "decode" >>
                 /\ _infer_lock' = _infer_lock
              \/ /\ pc'[t] = "infer_lock"
                 /\ frame'[t].image_bgr # None
                 /\ frame'[t].image_bgr = _decode_base64_image(frame'[t].image_data_url) ]_vars

C9_Witness ==
    \E t \in Threads :
        /\ pc[t] = "idle" /\ outcome[t] = "returned" /\ result[t] = None
        /\ stages[t] = << "load", "decode" >> /\ Loaded

\* C10: when the detector finds no face in the decoded frame, the call
\* returns the neutral record (Neutralita' with probability 1.0, 0.0 on the
\* six other labels, no bbox) without running expand, preprocess or predict.
C10_NoFaceIsNeutral ==
    [][ \A t \in Threads :
          (pc[t] = "detecting" /\ pc'[t] # "detecting"
              /\ _detect_largest_face(frame[t].image_bgr, frame[t].cascade) = None) =>
              /\ pc'[t] = "idle"
              /\ outcome'[t] = "returned"
              /\ result'[t] # None
              /\ result'[t].emotion = "Neutralita'"
              /\ DOMAIN result'[t].probs = LabelSet(7)
              /\ \A l \in LabelSet(7) :
                    result'[t].probs[l] = IF l = "Neutralita'" THEN SCALE ELSE 0
              /\ result'[t].bbox = None
              /\ stages'[t] = << "load", "decode", "lock", "detect" >> ]_vars

C10_Witness ==
    \E t \in Threads :
        /\ pc[t] = "idle" /\ outcome[t] = "returned" /\ result[t] # None
        /\ result[t].bbox = None /\ result[t].probs["Neutralita'"] = SCALE
        /\ stages[t] = << "load", "decode", "lock", "detect" >>

\* C11: a call whose normalized vector is invalid or has not exactly 7
\* entries returns None at that point; every result that is not None maps
\* exactly the 7 labels to probabilities.
C11_LengthValidated ==
    /\ [](\A t \in Threads :
            result[t] # None => DOMAIN result[t].probs = LabelSet(7))
    /\ [][ \A t \in Threads :
             (pc[t] = "normalize" /\ pc'[t] # "normalize") =>
                 LET probs == _to_probabilities(frame[t].predictions)
                 IN  IF probs = None \/ Len(probs.data) # 7
                     THEN /\ pc'[t] = "idle"
                          /\ outcome'[t] = "returned"
                          /\ result'[t] = None
                     ELSE /\ pc'[t] = "build"
                          /\ Len(frame'[t].probs_array.data) = 7 ]_vars

C11_Witness ==
    \E t \in Threads :
        /\ pc[t] = "idle" /\ outcome[t] = "returned" /\ result[t] = None
        /\ stages[t] = << "load", "decode", "lock", "detect", "expand",
                          "preprocess", "predict", "normalize" >>

\* C12: in every result that is not None, neutral or inferred, no label has
\* a higher probability than the dominant emotion.
C12_DominantIsMaximal ==
    \A t \in Threads :
        result[t] # None =>
            /\ result[t].emotion \in DOMAIN result[t].probs
            /\ \A l \in DOMAIN result[t].probs :
                  result[t].probs[l] <= result[t].probs[result[t].emotion]

C12_Witness ==
    \E s, t \in Threads :
        /\ result[s] # None /\ result[s].bbox = None
        /\ result[t] # None /\ result[t].bbox # None
        /\ result[t].emotion # "Rabbia"

\* a box that lies fully inside an image of the given shape
InsideImage(image_shape, b) ==
    /\ 0 <= b.x /\ 0 <= b.y /\ b.w > 0 /\ b.h > 0
    /\ b.x + b.w <= image_shape[2]
    /\ b.y + b.h <= image_shape[1]

\* C13: for a box fully inside the image, any margin >= 0 and either value
\* of make_square, the box _expand_bbox returns has 0 <= x', 0 <= y',
\* x' + w' <= image width and y' + h' <= image height.
C13_ExpandStaysInside ==
    (pc = "returned" /\ InsideImage(frame.image_shape, frame.bbox)) =>
        /\ 0 <= result.x
        /\ 0 <= result.y
        /\ result.x + result.w <= frame.image_shape[2]
        /\ result.y + result.h <= frame.image_shape[1]

\* the grown box had to be clamped on the left and on the right
C13_Witness ==
    /\ pc = "returned" /\ calls = 0
    /\ InsideImage(frame.image_shape, frame.bbox)
    /\ frame.mnum > 0 /\ frame.make_square
    /\ frame.bbox.x > 0 /\ result.x = 0
    /\ result.w < frame.bbox.h
    /\ result.x + result.w = frame.image_shape[2]

\* C14: with margin 0 and make_square false, _expand_bbox returns the box it
\* is given when that box lies inside the image, and so does every repeated
\* application.
C14_ExpandNoOp ==
    (/\ pc = "returned"
     /\ frame.mnum = 0 /\ ~frame.make_square
     /\ InsideImage(frame.image_shape, frame.bbox0)) =>
        /\ result = frame.bbox
        /\ result = frame.bbox0

C14_Witness ==
    /\ pc = "returned" /\ calls = MaxRepeat
    /\ frame.mnum = 0 /\ ~frame.make_square
    /\ InsideImage(frame.image_shape, frame.bbox0)
    /\ frame.bbox0.w # frame.bbox0.h
    /\ result = frame.bbox0

\* C15: whatever the mapping (values that do not sum to 1, values outside
\* [0,1], missing labels, values that are no numbers), each of stress, calm
\* and focus returned by _map_emotions_to_metrics lies in [0,100].
C15_MetricsInRange ==
    (pc = "returned" /\ stages = << "_map_emotions_to_metrics" >>) =>
        /\ outcome = "returned"
        /\ 0 <= result.stress /\ result.stress <= 100 * SCALE
        /\ 0 <= result.calm /\ result.calm <= 100 * SCALE
        /\ 0 <= result.focus /\ result.focus <= 100 * SCALE

\* both ends of the range are reached by clamping
C15_Witness ==
    /\ pc = "returned" /\ stages = << "_map_emotions_to_metrics" >>
    /\ IsNumberMapping(frame.probs)
    /\ DOMAIN frame.probs # LabelSet(NumLabels)
    /\ "Rabbia" \in DOMAIN frame.probs /\ frame.probs["Rabbia"].f > SCALE
    /\ "Disgusto" \in DOMAIN frame.probs /\ frame.probs["Disgusto"].f < 0
    /\ result.stress = 100 * SCALE /\ result.focus = 0

\* C16 (as claimed): stress, calm and focus are the clamped weighted sums
\* themselves.
C16_MetricsAreClampedSums ==
    (/\ pc = "returned" /\ stages = << "_map_emotions_to_metrics" >>
     /\ IsNumberMapping(frame.probs)) =>
        LET P(l) == IF l \in DOMAIN frame.probs THEN frame.probs[l].f ELSE 0
            clamp(v) == IF v < 0 THEN 0 ELSE IF v > 100 * SCALE THEN 100 * SCALE ELSE v
        IN  /\ result.stress = clamp(100 * P("Rabbia") + 90 * P("Disgusto") + 90 * P("Paura")
                                     + 50 * P("Tristezza") + 20 * P("Sorpresa"))
            /\ result.calm = clamp(100 * P("Neutralita'") + 80 * P("Felicita'"))
            /\ result.focus = clamp(80 * P("Neutralita'") + 60 * P("Sorpresa")
                                    + 50 * P("Felicita'") - 50 * P("Paura")
                                    - 50 * P("Rabbia"))

\* C16 (amended): stress, calm and focus are the clamped weighted sums,
\* missing labels counting 0, each rounded to one decimal; the one-hot
\* Neutralita' mapping gives 0.0 / 100.0 / 80.0 and the one-hot Rabbia mapping
\* 100.0 / 0.0 / 0.0.
C16_MetricsAreRoundedClampedSums ==
    (/\ pc = "returned" /\ stages = << "_map_emotions_to_metrics" >>
     /\ IsNumberMapping(frame.probs)) =>
        LET P(l) == IF l \in DOMAIN frame.probs THEN frame.probs[l].f ELSE 0
            clamp(v) == IF v < 0 THEN 0 ELSE IF v > 100 * SCALE THEN 100 * SCALE ELSE v
            tenth == SCALE \div 10
            round1(v) == PyRound(v, tenth) * tenth
            onehot(hot) == [l \in LabelSet(7) |-> Float(IF l = hot THEN SCALE ELSE 0)]
        IN  /\ result.stress = round1(clamp(100 * P("Rabbia") + 90 * P("Disgusto")
                                            + 90 * P("Paura") + 50 * P("Tristezza")
                                            + 20 * P("Sorpresa")))
            /\ result.calm = round1(clamp(100 * P("Neutralita'") + 80 * P("Felicita'")))
            /\ result.focus = round1(clamp(80 * P("Neutralita'") + 60 * P("Sorpresa")
                                           + 50 * P("Felicita'") - 50 * P("Paura")
                                           - 50 * P("Rabbia")))
            /\ frame.probs = onehot("Neutralita'") =>
                  result = [stress |-> 0, calm |-> 100 * SCALE, focus |-> 80 * SCALE]
            /\ frame.probs = onehot("Rabbia") =>
                  result = [stress |-> 100 * SCALE, calm |-> 0, focus |-> 0]

\* a sum that is rounded, one that is clamped from below, a missing label
C16_Witness ==
    /\ pc = "returned" /\ stages = << "_map_emotions_to_metrics" >>
    /\ IsNumberMapping(frame.probs)
    /\ DOMAIN frame.probs = LabelSet(7) \ { "Disgusto" }
    /\ frame.probs["Rabbia"].f = 333333
    /\ \A l \in DOMAIN frame.probs : l # "Rabbia" => frame.probs[l].f = 0
    /\ result = [stress |-> 33300000, calm |-> 0, focus |-> 0]

\* C17: get_emotion_metrics never raises; for None, an empty dict, a dict
\* without 'probs', and a 'probs' on which the computation fails it returns
\* stress 25.0, calm 50.0, focus 50.0.
C17_MetricsFallback ==
    (pc = "returned" /\ stages = << "get_emotion_metrics" >>) =>
        /\ outcome = "returned"
        /\ (\/ frame = None
            \/ DOMAIN frame = {}
            \/ "probs" \notin DOMAIN frame
            \/ ~IsNumberMapping(frame.probs)) =>
              result = [stress |-> 25 * SCALE, calm |-> 50 * SCALE, focus |-> 50 * SCALE]

\* the computation failed on a value that is no number
C17_Witness ==
    /\ pc = "returned" /\ stages = << "get_emotion_metrics" >>
    /\ outcome = "returned"
    /\ frame # None /\ "probs" \in DOMAIN frame
    /\ frame.probs # None /\ ~IsNumberMapping(frame.probs)
    /\ result = [stress |-> 25 * SCALE, calm |-> 50 * SCALE, focus |-> 50 * SCALE]

\* C18 (as claimed): for every raw vector, _to_probabilities returns a
\* vector that sums to 1.0 within the tolerance 1e-3 and has no negative
\* entry.
C18_NormalizedIsDistribution ==
    (/\ pc = "returned"
     /\ Len(IF frame.ndim = 2 THEN frame.data[1] ELSE frame.data) > 0) =>
        /\ result # None
        /\ Abs(SumSeq(result.data) - SCALE) <= 1000
        /\ \A i \in 1..Len(result.data) : result.data[i] >= 0

\* C19 (as claimed): a call of _load_model_and_cascade made when the bundle
\* is loaded returns the cached pair without taking the initialization lock,
\* and no thread acquires the initialization lock in a state where model and
\* cascade are both cached.
C19_NoLockOnceLoaded ==
    [][ Loaded =>
          \A t \in Threads :
             /\ pc[t] \in { "check_model", "check_cascade" } => pc'[t] # "model_lock"
             /\ ~(_model_lock # t /\ _model_lock' = t) ]_vars

\* C19 (amended): a call of _load_model_and_cascade whose first check runs
\* when the bundle is loaded returns the cached pair without taking the
\* initialization lock.  A thread that made its first check before the load
\* finished may still acquire the lock once the bundle is cached; it then
\* only re-checks, releases the lock and returns the cached pair.  The lock
\* is held on a loaded bundle only by such a thread or by the loader on its
\* way out.
C19_LockOnlyToLoadOrRecheck ==
    /\ [](\A t \in Threads :
            (Loaded /\ _model_lock = t) => pc[t] \in { "recheck", "load_return" })
    /\ [][ Loaded =>
             \A t \in Threads :
                /\ pc[t] \in { "check_model", "check_cascade" } =>
                      pc'[t] \in { pc[t], "check_cascade", "return_model" }
                /\ pc[t] \in { "return_model", "return_cascade" } =>
                      /\ pc'[t] \in { pc[t], "return_cascade", "check_bundle" }
                      /\ _model_lock' # t
                      /\ pc'[t] = "check_bundle" =>
                            (frame'[t].model = _model /\ frame'[t].cascade = _cascade)
                /\ (pc[t] = "recheck" /\ pc'[t] # "recheck") =>
                      /\ pc'[t] = "check_bundle"
                      /\ _model_lock' = 0
                      /\ frame'[t].model = _model /\ frame'[t].cascade = _cascade ]_vars

\* a thread that waited for the lock holds it on a loaded bundle, while the
\* thread that loaded has returned
C19_Witness ==
    \E s, t \in Threads :
        /\ s # t /\ Loaded
        /\ pc[t] = "recheck" /\ _model_lock = t
        /\ pc[s] \in { "check_bundle", "decode" }
        /\ frame[s].model = _model /\ frame[s].cascade = _cascade

\* C20: a thread that is decoding the image, normalizing the model output,
\* validating its length or selecting the dominant emotion does not hold the
\* inference lock; such a stage runs while another thread is inside the
\* inference critical section.
C20_LockFreeStages ==
    \A t \in Threads :
        pc[t] \in { "decode", "normalize", "build" } => _infer_lock # t

\* one thread normalizes its output while another is inside model.predict
C20_Witness ==
    \E s, t \in Threads :
        /\ s # t
        /\ pc[s] = "normalize" /\ _infer_lock # s
        /\ pc[t] = "predicting" /\ _infer_lock = t

\* C21: the stages of a call run in the order load, decode, detect, expand,
\* preprocess, predict, normalize (detect after the inference lock is
\* taken); model.predict runs only with a bundle, a decoded image, a detected
\* face and a preprocessed tensor; a call whose preprocessing fails returns
\* None without running predict.
C21_StageOrder ==
    /\ [](\A t \in Threads :
            /\ \E n \in 0..8 :
                  stages[t] = SubSeq(<< "load", "decode", "lock", "detect", "expand",
                                        "preprocess", "predict", "normalize" >>, 1, n)
            /\ pc[t] = "predicting" =>
                  /\ frame[t].model # None /\ frame[t].cascade # None
                  /\ frame[t].image_bgr # None
                  /\ frame[t].face_bbox # None
                  /\ frame[t].face_input # None)
    /\ [][ \A t \in Threads :
             (/\ pc[t] = "preprocess" /\ pc'[t] # "preprocess"
              /\ _preprocess_face_image(frame[t].image_bgr, frame[t].bbox2,
                                        InputShapeOf(frame[t].model),
                                        PreprocessMode) = None) =>
                 /\ pc'[t] = "idle"
                 /\ outcome'[t] = "returned"
                 /\ result'[t] = None
                 /\ stages'[t] = << "load", "decode", "lock", "detect", "expand",
                                    "preprocess" >> ]_vars

\* a call ended at a failed preprocessing, the inference lock free again
C21_Witness ==
    \E t \in Threads :
        /\ pc[t] = "idle" /\ outcome[t] = "returned" /\ result[t] = None
        /\ stages[t] = << "load", "decode", "lock", "detect", "expand", "preprocess" >>
        /\ _infer_lock = 0

\* C22: the custom cascade is tried first and the built-in one only when
\* the custom one is absent or empty; the load returns the bundle when the
\* model and one of the two cascades loaded, and (None, None) when neither
\* cascade loaded.
C22_CascadeOrder ==
    [][ \A t \in Threads :
          /\ (pc[t] = "load_model" /\ pc'[t] \notin { "load_model", "check_bundle" }) =>
                (pc'[t] = "load_custom" /\ _model' # None)
          /\ (pc[t] = "load_custom" /\ pc'[t] # "load_custom") =>
                \/ /\ pc'[t] = "load_return"
                   /\ frame'[t].cascade_loaded
                   /\ _cascade' # None /\ _cascade'.src = "custom"
                \/ /\ pc'[t] = "load_fallback"
                   /\ ~frame'[t].cascade_loaded
                   /\ _cascade' = _cascade
          /\ (pc[t] # "load_fallback" /\ pc'[t] = "load_fallback") =>
                pc[t] = "load_custom"
          /\ (pc[t] = "load_fallback" /\ pc'[t] # "load_fallback") =>
                /\ pc'[t] = "load_return"
                /\ \/ frame'[t].cascade_loaded /\ _cascade' # None /\ _cascade'.src = "builtin"
                   \/ ~frame'[t].cascade_loaded /\ _cascade' = _cascade
          /\ (pc[t] = "load_return" /\ pc'[t] # "load_return") =>
                /\ pc'[t] = "check_bundle"
                /\ IF frame[t].cascade_loaded
                   THEN /\ frame'[t].model = _model /\ _model # None
                        /\ frame'[t].cascade = _cascade /\ _cascade # None
                   ELSE frame'[t].model = None /\ frame'[t].cascade = None ]_vars

\* a load that fell back to the built-in cascade has returned the bundle
C22_Witness ==
    \E t \in Threads :
        /\ pc[t] = "check_bundle" /\ frame[t].cascade_loaded
        /\ frame[t].model # None /\ frame[t].cascade # None
        /\ frame[t].cascade.src = "builtin"

\* C23: when grayscale conversion or the cascade raises on the frame,
\* _detect_largest_face gives None, and analyze_frame returns the neutral
\* result (not None) and releases the inference lock.
C23_DetectionFailureIsNoFace ==
    /\ [](\A t \in Threads :
            (pc[t] = "detecting" /\ frame[t].image_bgr.derr) =>
                _detect_largest_face(frame[t].image_bgr, frame[t].cascade) = None)
    /\ [][ \A t \in Threads :
             (pc[t] = "detecting" /\ pc'[t] # "detecting" /\ frame[t].image_bgr.derr) =>
                 /\ pc'[t] = "idle"
                 /\ outcome'[t] = "returned"
                 /\ result'[t] # None
                 /\ result'[t] = _get_neutral_emotion_data
                 /\ _infer_lock = t /\ _infer_lock' = 0 ]_vars

\* the detector is at work on a frame it raises on, another call has
\* returned a result
C23_Witness ==
    \E s, t \in Threads :
        /\ pc[t] = "detecting" /\ frame[t].image_bgr.derr /\ _infer_lock = t
        /\ pc[s] = "idle" /\ outcome[s] = "returned" /\ result[s] # None

\* the grown region of the call, before clamping
Grown == GrownBox(frame.bbox, frame.mnum, MarginDen, frame.make_square)

\* C24: for every non-empty image and every input box, the box returned by
\* _expand_bbox has width > 0 and height > 0.
C24_ExpandPositiveArea ==
    pc = "returned" => (result.w > 0 /\ result.h > 0)

\* C25 as stated: a negative left/top edge of the grown region gives x = 0
\* (y = 0) and a right (bottom) edge not beyond the unclamped one; a right
\* (bottom) edge beyond the image gives x+w = image width (y+h = image height).
C25_ClampKeepsOppositeEdge ==
    pc = "returned" =>
        /\ Grown.x < 0 => (result.x = 0 /\ result.x + result.w <= Grown.x + Grown.w)
        /\ Grown.y < 0 => (result.y = 0 /\ result.y + result.h <= Grown.y + Grown.h)
        /\ Max2(0, Grown.x) + Grown.w > frame.image_shape[2] =>
               result.x + result.w = frame.image_shape[2]
        /\ Max2(0, Grown.y) + Grown.h > frame.image_shape[1] =>
               result.y + result.h = frame.image_shape[1]

\* C25: a negative left/top edge of the grown region gives x = 0 (y = 0) and
\* the region keeps its grown width (height), so it is shifted: its right
\* (bottom) edge is the grown width (height); a right (bottom) edge beyond the
\* image gives x+w = image width (y+h = image height).
C25_ClampShifts ==
    pc = "returned" =>
        /\ Grown.x < 0 =>
               /\ result.x = 0
               /\ Grown.w <= frame.image_shape[2] => result.w = Grown.w
        /\ Grown.y < 0 =>
               /\ result.y = 0
               /\ Grown.h <= frame.image_shape[1] => result.h = Grown.h
        /\ Max2(0, Grown.x) + Grown.w > frame.image_shape[2] =>
               result.x + result.w = frame.image_shape[2]
        /\ Max2(0, Grown.y) + Grown.h > frame.image_shape[1] =>
               result.y + result.h = frame.image_shape[1]

\* default margin, squared: the left edge was negative and the region is
\* shifted beyond its unclamped right edge; the bottom edge was cut
C25_Witness ==
    /\ pc = "returned" /\ calls = 0
    /\ frame.mnum = MarginNum /\ frame.make_square
    /\ InsideImage(frame.image_shape, frame.bbox)
    /\ Grown.x < 0 /\ result.x = 0
    /\ result.w = Grown.w /\ result.x + result.w > Grown.x + Grown.w
    /\ Grown.y > 0 /\ Grown.y + Grown.h > frame.image_shape[1]
    /\ result.y + result.h = frame.image_shape[1]

\* analyze_frame past the check of line 346, before its return
UsesBundle(t) ==
    pc[t] \in { "decode", "infer_lock", "normalize", "build" } \/ InCritical(t)

\* C26: the pair _load_model_and_cascade returns has both members or none,
\* also on the lock-free return while another thread is loading; detection
\* and inference run with both members present.
C26_BundleWhole ==
    \A t \in Threads :
        /\ pc[t] = "check_bundle" => ((frame[t].model = None) <=> (frame[t].cascade = None))
        /\ UsesBundle(t) => (frame[t].model # None /\ frame[t].cascade # None)

\* the lock-free return has handed out both members while the loading thread
\* is still inside the load sequence
C26_Witness ==
    \E s, t \in Threads :
        /\ pc[s] = "load_return" /\ _model_lock = s
        /\ pc[t] = "check_bundle" /\ frame[t].model # None /\ frame[t].cascade # None

\* C27: every exit from the inference critical section (the no-face return,
\* the return on failed preprocessing, an exception, the end of
\* model.predict) releases _infer_lock; when no thread is between detection
\* and inference the lock is free.
C27_InferLockReleased ==
    /\ []((\A t \in Threads : ~InCritical(t)) => _infer_lock = 0)
    /\ [][ \A t \in Threads :
             (InCritical(t) /\ ~InCritical(t)') =>
                 /\ _infer_lock = t
                 /\ _infer_lock' = 0
                 /\ pc'[t] \in { "idle", "handler", "normalize" } ]_vars

\* model.predict raised: the thread is in the handler, the lock is free and
\* the other thread, which waited for it, can take it
C27_Witness ==
    \E s, t \in Threads :
        /\ pc[t] = "handler" /\ stages[t][Len(stages[t])] = "predict"
        /\ pc[s] = "infer_lock"
        /\ _infer_lock = 0

\* C28: a failed load is not remembered: a return of (None, None) leaves the
\* bundle not loaded and the lock free; while the bundle is not loaded a call
\* goes to the initialization lock and runs the load sequence from the model
\* load, which loads the model anew and returns the bundle when a cascade
\* loads; a load that failed at the cascades leaves _model set and _cascade
\* None.
C28_FailedLoadNotCached ==
    [][ \A t \in Threads :
          /\ (pc[t] # "check_bundle" /\ pc'[t] = "check_bundle" /\ BundleMissing(t)') =>
                (~Loaded' /\ _model_lock' = 0)
          /\ (~Loaded /\ pc[t] = "check_model" /\ pc'[t] # "check_model") =>
                pc'[t] \in { "check_cascade", "model_lock" }
          /\ (~Loaded /\ pc[t] = "check_cascade" /\ pc'[t] # "check_cascade") =>
                pc'[t] = "model_lock"
          /\ (pc[t] = "model_lock" /\ pc'[t] # "model_lock") =>
                (_model_lock = 0 /\ _model_lock' = t /\ pc'[t] = "recheck")
          /\ (~Loaded /\ pc[t] = "recheck" /\ pc'[t] # "recheck") =>
                pc'[t] = "load_model"
          /\ (pc[t] = "load_model" /\ pc'[t] = "load_custom") =>
                (_model' # None /\ _model'.id = NextId(_model))
          /\ (pc[t] = "load_return" /\ pc'[t] # "load_return") =>
                IF frame[t].cascade_loaded
                THEN ~BundleMissing(t)' /\ Loaded'
                ELSE BundleMissing(t)' /\ _model' # None /\ _cascade' = None ]_vars

\* a call returned None after a load that failed at the cascades; the next
\* load has loaded the model a second time and returned the bundle
C28_Witness ==
    \E s, t \in Threads :
        /\ pc[s] = "idle" /\ outcome[s] = "returned" /\ result[s] = None
        /\ stages[s] = << "load" >>
        /\ pc[t] = "check_bundle" /\ ~BundleMissing(t)
        /\ frame[t].model.id = 2 /\ frame[t].model = _model

\* C29: no thread holds _model_lock and _infer_lock together: _model_lock
\* is held only inside _load_model_and_cascade and is released before the
\* thread asks for _infer_lock.
C29_NeverBothLocks ==
    \A t \in Threads :
        /\ ~(_model_lock = t /\ _infer_lock = t)
        /\ _model_lock = t => UnderModelLock(t)
        /\ (pc[t] = "infer_lock" \/ InCritical(t)) => _model_lock # t
        /\ _infer_lock = t => InCritical(t)

\* both locks are held, by two threads: one is inside the with block of
\* _model_lock, the other inside the with block of _infer_lock
C29_Witness ==
    \E s, t \in Threads :
        /\ s # t
        /\ _model_lock = s /\ UnderModelLock(s)
        /\ _infer_lock = t /\ InCritical(t)

\* the part of the load sequence that assigns _model and _cascade (lines
\* 57-100), before the final return of lines 102-106
Loading(t) == pc[t] \in { "load_model", "load_custom", "load_fallback" }

\* C30 as stated: while a thread is inside the inference critical section
\* no thread is executing the load sequence, and the model and cascade the
\* thread uses are the cached ones.
C30_NoLoadDuringUse ==
    \A t \in Threads :
        InCritical(t) =>
            /\ \A s \in Threads : ~InLoad(s)
            /\ frame[t].model = _model
            /\ frame[t].cascade = _cascade

\* C30: while a thread is inside the inference critical section no thread
\* is at a step of the load sequence that loads or assigns the model or a
\* cascade (a loader can still be at the final return of the load, both
\* members cached), and the model and cascade the thread uses are the cached
\* ones.
C30_NoAssignmentDuringUse ==
    \A t \in Threads :
        InCritical(t) =>
            /\ \A s \in Threads : ~Loading(s)
            /\ frame[t].model = _model
            /\ frame[t].cascade = _cascade

\* a thread took the lock-free return and runs detection while the loader
\* has not yet returned from the load
C30_Witness ==
    \E s, t \in Threads :
        /\ pc[s] = "load_return" /\ _model_lock = s
        /\ pc[t] = "detecting" /\ _infer_lock = t
        /\ frame[t].model = _model /\ frame[t].cascade = _cascade

=============================================================================
